---- MODULE Spec2Model ----
(***************************************************************************)
(* Market watch (src/first-flet-app/src/market_watch.py): the DataManager  *)
(* store of five bounded deques behind one lock, the scheduled polling     *)
(* loop MarketApp._loop, the manual refresh MarketApp._single_fetch and    *)
(* the controls start / stop / on_interval_change.                         *)
(*                                                                         *)
(* Threads run under the interpreter lock: one step of the model is one    *)
(* access to shared state (an attribute of the app, a deque of the store,  *)
(* the lock, the clock) together with the thread-local work around it.     *)
(* Provider calls and sleeps touch no shared state; a thread waits in the  *)
(* pc of the call and the step that leaves that pc is the call returning.  *)
(***************************************************************************)
EXTENDS Integers, Sequences, FiniteSets

(* ------------------------------- bounds -------------------------------- *)

\* Loop threads that can be alive at once (start() creates a new thread each time).
MaxLoops == 2
\* Manual refresh threads that can be alive at once.
MaxManual == 1
\* Provider prices are 1..MaxPrice.
MaxPrice == 1
\* Fetch cycles (scheduled and manual together) started in one run of SpecData,
\* in one run of Spec, and in one run of SpecRun or SpecClock. Each cycle
\* reads the clock once.
MaxCycles == 3
MaxCyclesCtl == 1
MaxCyclesRun == 2
\* Capacity the deques of the store are built with in Spec.
MaxPoints == 2
\* The options of the interval dropdown are 1..MaxInterval.
MaxInterval == 2
\* Appends performed in SpecCap, beyond the capacity.
MaxOver == 5

\* Quotes a provider can yield are 1..MaxQuote.
MaxQuote == 2
\* The largest values of random.random() are 1 - m * 2^-53, m in 1 .. MaxBelow.
MaxBelow == 6

(* -------------------------- program constants -------------------------- *)

MAX_POINTS == 120
\* The most digits int() converts: the interpreter's default.
MAX_STR_DIGITS == 4300

(* ------------------------------- values -------------------------------- *)

\* Python's None. A value v that is present is the one-element tuple <<v>>.
None == << >>
Some(v) == << v >>

Prices == 1 .. MaxPrice

Min(a, b) == IF a < b THEN a ELSE b

(* ------------------------ str() and int() -------------------------- *)

\* A text is the sequence of the code points of its characters.

\* The code points int() ignores before and after a literal.
Whitespace ==
    { 9, 10, 11, 12, 13, 32, 133, 160, 5760, 8192, 8193, 8194, 8195, 8196,
      8197, 8198, 8199, 8200, 8201, 8202, 8232, 8233, 8239, 8287, 12288 }

\* The code point of the digit zero of every decimal script (ASCII first);
\* the digits one to nine of the script follow it. int() reads them all.
DigitZeros ==
    { 48, 1632, 1776, 1984, 2406, 2534, 2662, 2790, 2918, 3046, 3174,
      3302, 3430, 3558, 3664, 3792, 3872, 4160, 4240, 6112, 6160, 6470,
      6608, 6784, 6800, 6992, 7088, 7232, 7248, 42528, 43216, 43264,
      43472, 43504, 43600, 44016, 65296, 66720, 68912, 69734, 69872,
      69942, 70096, 70384, 70736, 70864, 71248, 71360, 71472, 71904,
      72016, 72784, 73040, 73120, 92768, 92864, 93008, 120782, 120792,
      120802, 120812, 120822, 123200, 123632, 125264, 130032 }

IsDigit(c) == \E z \in DigitZeros : c \in z .. z + 9

DigitVal(c) == c - (CHOOSE z \in DigitZeros : c \in z .. z + 9)

RECURSIVE NatStr(_)
\* The decimal digits of n >= 0, as str(n) writes them ("0" is code point 48).
NatStr(n) ==
    IF n < 10 THEN << 48 + n >>
    ELSE NatStr(n \div 10) \o << 48 + (n % 10) >>

\* str(n): the text of a dropdown option ("-" is code point 45).
PyStr(n) == IF n < 0 THEN << 45 >> \o NatStr(-n) ELSE NatStr(n)

RECURSIVE StripLeft(_)
StripLeft(s) ==
    IF s # << >> /\ Head(s) \in Whitespace THEN StripLeft(Tail(s)) ELSE s

RECURSIVE StripRight(_)
StripRight(s) ==
    IF s # << >> /\ s[Len(s)] \in Whitespace
    THEN StripRight(SubSeq(s, 1, Len(s) - 1))
    ELSE s

\* The digits of an int() literal: digits, single underscores (code point 95)
\* only between digits.
ValidDigits(s) ==
    /\ s # << >>
    /\ IsDigit(s[1])
    /\ IsDigit(s[Len(s)])
    /\ \A k \in 1 .. Len(s) : IsDigit(s[k]) \/ s[k] = 95
    /\ \A k \in 1 .. Len(s) - 1 : ~(s[k] = 95 /\ s[k + 1] = 95)

RECURSIVE DigitsVal(_, _)
DigitsVal(s, acc) ==
    IF s = << >> THEN acc
    ELSE IF Head(s) = 95 THEN DigitsVal(Tail(s), acc)
    ELSE DigitsVal(Tail(s), acc * 10 + DigitVal(Head(s)))

\* The digits of a literal, leading zeros included, underscores not.
DigitCount(s) == Cardinality({ k \in 1 .. Len(s) : IsDigit(s[k]) })

\* int(s) for a string s: [ok |-> TRUE, val |-> n], or ok = FALSE where int()
\* raises ValueError: the text is no literal, or it has more digits than the
\* interpreter converts (sys.get_int_max_str_digits()). A sign is "-" (45) or
\* "+" (43), directly before the digits.
PyInt(s) ==
    LET u == StripRight(StripLeft(s))
        signed == u # << >> /\ Head(u) \in { 45, 43 }
        d == IF signed THEN Tail(u) ELSE u
    IN  IF ValidDigits(d) /\ DigitCount(d) <= MAX_STR_DIGITS
        THEN [ ok |-> TRUE,
               val |-> IF signed /\ Head(u) = 45 THEN -DigitsVal(d, 0)
                       ELSE DigitsVal(d, 0) ]
        ELSE [ ok |-> FALSE, val |-> 0 ]

\* The values the interval dropdown hands to on_interval_change: its options
\* [str(x) for x in [15, 30, 60, 120]], each the text of a positive integer,
\* here scaled down to 1 .. MaxInterval.
IntervalInputs == { PyStr(n) : n \in 1 .. MaxInterval }

\* Values a direct call of on_interval_change can carry in its event: "0",
\* "-1", tab "1", "1" newline, the Arabic-Indic digit one, " 2 ", "x", "",
\* and a literal of one digit more than int() converts.
IntervalTexts ==
    { PyStr(0), PyStr(-1), << 9, 49 >>, << 49, 10 >>, << 1633 >>, << 32, 50, 32 >>,
      << 120 >>, << >>, [ k \in 1 .. MAX_STR_DIGITS + 1 |-> 57 ] }

(* ------------------------------ the store ------------------------------ *)

\* collections.deque(maxlen=m).append(x): the oldest entry leaves a full deque.
DequeAppendUnbounded(q, x, m) == Append(q, x)
DequeAppend(q, x, m) ==
    IF Len(q) >= m THEN Append(Tail(q), x) ELSE Append(q, x)

\* q[-1] if q else None
LastOrNone(q) == IF q # << >> THEN Some(q[Len(q)]) ELSE None

\* DataManager.__init__
EmptyStore ==
    [ timestamps |-> << >>, ndx |-> << >>, gspc |-> << >>,
      usd_buy |-> << >>, usd_sell |-> << >> ]

\* The body of DataManager.latest.
LatestOf(d) ==
    [ time |-> LastOrNone(d.timestamps),
      ndx  |-> IF d.ndx # << >> THEN d.ndx[Len(d.ndx)] ELSE None,
      gspc |-> IF d.gspc # << >> THEN d.gspc[Len(d.gspc)] ELSE None,
      buy  |-> IF d.usd_buy # << >> THEN d.usd_buy[Len(d.usd_buy)] ELSE None,
      sell |-> IF d.usd_sell # << >> THEN d.usd_sell[Len(d.usd_sell)] ELSE None ]

\* The body of DataManager.snapshot: copies of the five deques.
SnapshotOf(d) ==
    << d.timestamps, d.ndx, d.gspc, d.usd_buy, d.usd_sell >>

\* The body of DataManager.append, all five deque appends.
AppendAll(d, m, t, ndx, gspc, buy, sell) ==
    [ timestamps |-> DequeAppend(d.timestamps, t, m),
      ndx        |-> DequeAppend(d.ndx, ndx, m),
      gspc       |-> DequeAppend(d.gspc, gspc, m),
      usd_buy    |-> DequeAppend(d.usd_buy, buy, m),
      usd_sell   |-> DequeAppend(d.usd_sell, sell, m) ]

(* ------------------------------- threads ------------------------------- *)

Loops == 1 .. MaxLoops
Manuals == (MaxLoops + 1) .. (MaxLoops + MaxManual)
Threads == Loops \cup Manuals

VARIABLES
    dm,           \* the DataManager's five deques
    cap,          \* the maxlen the deques were built with
    quota,        \* the number of fetch cycles the run may still start
    lock,         \* DataManager.lock: 0 when free, else the thread holding it
    running,      \* MarketApp.running
    interval,     \* MarketApp.interval
    source_text,  \* MarketApp.source_text.value, as the list of sources it names
    now,          \* the latest reading of the wall clock (0 before the first)
    pc,           \* where each thread is
    loc,          \* each thread's local variables
    appends,      \* calls of DataManager.append completed so far
    rows,         \* the Samples handed to DataManager.append, the last `cap` of them
    halted,       \* per loop thread: sleep steps finished since stop() was
                  \* called during its sleep phase (-1: no such call)
    jitters,      \* the jitters the run draws its backoffs' random part from
    chain,        \* one call of a provider chain (fetch_index_price or
                  \* fetch_boc_usd_cny): what its providers will do, how far
                  \* the call has come, and what it returned
    ticks,        \* how far the wall clock may have moved between two
                  \* readings of it: backwards, not at all, forwards
    feed          \* the results of the coming calls of
                  \* fetch_index_price("^NDX"), when the run fixes them

vars ==
    << dm, cap, quota, lock, running, interval, source_text, now, pc, loc,
       appends, rows, halted, jitters, chain, ticks, feed >>

\* A length of time: ms milliseconds less `short` times 2^-52 s (the step
\* between neighbouring floats from 1.0 up to 2.0).
Wait(ms, short) == [ ms |-> ms, short |-> short ]
NoWait == Wait(0, 0)
WaitSum(a, b) == Wait(a.ms + b.ms, a.short + b.short)
\* a lasts at least n ms; a lasts less than n ms.
WaitAtLeast(a, n) == a.ms > n \/ (a.ms = n /\ a.short = 0)
WaitBelow(a, n) == a.ms < n \/ (a.ms = n /\ a.short > 0)

NoLatest == [ time |-> None, ndx |-> None, gspc |-> None, buy |-> None, sell |-> None ]
NoSnapshot == << >>

\* The locals of _loop and _single_fetch before a cycle assigns them.
\* a_ndx .. a_sell are the evaluated arguments of the pending dm.append call;
\* waited is the time the cycle's retry loop has slept in backoffs.
CleanLocals ==
    [ t |-> 0, ndx |-> None, gspc |-> None, buy |-> None, sell |-> None,
      attempt |-> 0, backoff |-> NoWait, kind |-> "",
      a_ndx |-> None, a_gspc |-> None, a_buy |-> None, a_sell |-> None,
      latest |-> NoLatest, snap |-> NoSnapshot, slept |-> 0, waited |-> NoWait ]

\* What a provider chain can return for an index, and for the FX pair
\* (fetch_boc_usd_cny returns both rates or neither; the two rates are in no
\* fixed order).
IndexResults == { None } \cup { Some(p) : p \in Prices }
FxResults ==
    { << None, None >> } \cup { << Some(b), Some(s) >> : b \in Prices, s \in Prices }

\* random.random() * 0.5, a float in [0, 0.5): `half` ms less `below` times
\* 2^-54 s. random.random() is 1 - m * 2^-53 for some m in 1 .. 2^53, and the
\* product with 0.5 is exact.
Jitter(half, below) == [ half |-> half, below |-> below ]
\* The jitters of random.random() = 0, of a value in the middle of the range
\* and of its largest values, 1 - m * 2^-53 for m in 1 .. MaxBelow.
Jitters ==
    { Jitter(0, 0), Jitter(499, 0) } \cup { Jitter(500, m) : m \in 1 .. MaxBelow }
NoJitter == { Jitter(0, 0) }

\* The step between neighbouring floats around attempt + 0.5, in units of
\* 2^-54 s: 2^-52 s from 1.0 up to 2.0, 2^-51 s from 2.0 up to 4.0.
FloatStep(attempt) == IF attempt = 1 THEN 4 ELSE 8
\* m / g rounded to the nearest integer, a tie to the even one: the rounding
\* of a float sum (the floats attempt + 0.5 have an even last bit).
RoundHalfEven(m, g) ==
    LET q == m \div g
        r == m % g
    IN  IF 2 * r < g THEN q
        ELSE IF 2 * r > g THEN q + 1
        ELSE IF q % 2 = 0 THEN q ELSE q + 1

\* backoff = attempt * 1.0 + random.random() * 0.5, j the random part: the
\* float nearest to the sum.
Backoff(attempt, j) ==
    Wait(attempt * 1000 + j.half,
         (FloatStep(attempt) \div 4) * RoundHalfEven(j.below, FloatStep(attempt)))

\* ndx is None and gspc is None and buy is None
AllNone(ndx, gspc, buy) == ndx = None /\ gspc = None /\ buy = None

\* The text set into source_text after an attempt.
SourceText(ndx, buy) ==
    LET srcs == (IF ndx # None THEN << "index-html" >> ELSE << >>)
                \o (IF buy # None THEN << "fx-html" >> ELSE << >>)
    IN  IF srcs # << >> THEN srcs ELSE << "unknown" >>

\* if self.dm.timestamps:
HasHistoryAlways(d) == TRUE
HasHistory(d) == d.timestamps # << >>

\* v if v is not None else (q[-1] if q else None)
FieldArgNoCarry(v, q) == v
FieldArg(v, q) ==
    IF v # None THEN v ELSE IF q # << >> THEN q[Len(q)] ELSE None

\* The arguments of self.dm.append(t, ...) on the fresh path are evaluated left
\* to right. An argument whose fetched value is present is that value and
\* reads nothing shared; the others each read their deque, without the lock.
\* ArgFrom(l, k) is the pc of the first store read among the arguments from
\* the k-th on (1 ndx, 2 gspc, 3 buy, 4 sell), or the call itself.
ArgFrom(l, k) ==
    IF k <= 1 /\ l.ndx = None THEN "arg_ndx"
    ELSE IF k <= 2 /\ l.gspc = None THEN "arg_gspc"
    ELSE IF k <= 3 /\ l.buy = None THEN "arg_buy"
    ELSE IF k <= 4 /\ l.sell = None THEN "arg_sell"
    ELSE "append"

\* The locals once the fetched values are known: the arguments that need no
\* store read are already determined.
WithOwnArgs(l) ==
    [ l EXCEPT !.a_ndx = l.ndx, !.a_gspc = l.gspc, !.a_buy = l.buy, !.a_sell = l.sell ]

\* threading.Lock: `with self.lock` enters only when the lock is free.
CanAcquireAlways(l) == TRUE
CanAcquire(l) == l = 0

\* slept < self.interval
SleepMoreOffByOne(slept, ivl) == slept <= ivl
SleepMore(slept, ivl) == slept < ivl

\* if ndx is None and gspc is None and buy is None: ... return
ManualNeverGivesUp(ndx, gspc, buy) == FALSE
ManualGivesUp(ndx, gspc, buy) == AllNone(ndx, gspc, buy)

\* for attempt in range(1, 4): ... if attempt < 3: backoff, then the next
\* attempt. True while a failed attempt is followed by a backoff and a retry.
RetryAfterThird(attempt) == attempt <= 3
RetryAfter(attempt) == attempt < 3

\* The pcs of the sleep phase at the end of a scheduled cycle.
SleepPhase == { "sl_run", "sl_ivl", "sleeping" }

\* The least idle thread of a set (thread objects are interchangeable).
Idle(S) == { i \in S : pc[i] = "idle" }
FirstIdle(S) == CHOOSE i \in Idle(S) : \A j \in Idle(S) : i <= j

(* --------------------------- provider chains --------------------------- *)

Quotes == 1 .. MaxQuote

\* What a provider does when its block of the function runs: something in the
\* block raises, or the block finds nothing usable and falls through, or it
\* reaches a `return` with what it found.
Raises == [ tag |-> "raise" ]
Nothing == [ tag |-> "nothing" ]
Yields(v) == [ tag |-> "value", v |-> v ]

\* The blocks of fetch_index_price in the order of the function body; the
\* yfinance block runs only `if yf is not None`.
IndexProviders(yf) ==
    IF yf THEN << "yahoo-html", "stooq", "yfinance", "yahoo-api" >>
    ELSE << "yahoo-html", "stooq", "yahoo-api" >>

\* The blocks of fetch_boc_usd_cny in the order of the function body.
FxProviders == << "boc", "x-rates", "stooq", "exchangerate" >>

ProvidersOf(c) == IF c.fn = "index" THEN IndexProviders(c.yf) ELSE FxProviders

\* The BOC page yields the two rates << buy, sell >> of its USD row; every
\* other provider yields one number << q >>.
OutcomesOf(fn, p) ==
    { Raises, Nothing }
        \cup (IF fn = "fx" /\ p = "boc"
              THEN { Yields(<< b, s >>) : b \in Quotes, s \in Quotes }
              ELSE { Yields(<< q >>) : q \in Quotes })

\* What the `return` of a block returns. Index: float(v). FX, in thousandths:
\* the BOC block returns its two rates, the others round(rate * 0.997, 6) and
\* round(rate * 1.003, 6), exact for a whole rate.
ChainValue(fn, p, v) ==
    IF fn = "index" THEN Some(v[1])
    ELSE IF p = "boc" THEN << Some(1000 * v[1]), Some(1000 * v[2]) >>
    ELSE << Some(997 * v[1]), Some(1003 * v[1]) >>

\* return None  /  return None, None
ChainNone(fn) == IF fn = "index" THEN None ELSE << None, None >>

\* try: <block> except Exception as e: print(...)  A `return` in the block
\* ends the call; a raise is caught by the block's own except clause and the
\* function goes on to the next block, as it does when the block falls through.
AfterProviderUncaught(o) ==
    IF o.tag = "value" THEN "return" ELSE IF o.tag = "raise" THEN "escape" ELSE "next"
AfterProvider(o) ==
    IF o.tag = "value" THEN "return" ELSE "next"

\* No chain call under observation.
NoChain ==
    [ fn |-> "", yf |-> FALSE, outs |-> << >>, k |-> 0, seen |-> << >>,
      st |-> "idle", ret |-> None ]

\* A call of a chain that has just begun, for every way its providers can behave.
ChainCalls ==
    { [ fn |-> fn, yf |-> yf, outs |-> outs, k |-> 1, seen |-> << >>,
        st |-> "call", ret |-> None ] :
        fn \in { "index" }, yf \in BOOLEAN,
        outs \in [ { "yahoo-html", "stooq", "yfinance", "yahoo-api" }
                     -> OutcomesOf("index", "") ] }
    \cup
    { [ fn |-> "fx", yf |-> FALSE, outs |-> outs, k |-> 1, seen |-> << >>,
        st |-> "call", ret |-> None ] :
        outs \in { f \in [ { "boc", "x-rates", "stooq", "exchangerate" }
                            -> OutcomesOf("fx", "boc") \cup OutcomesOf("fx", "") ] :
                     \A p \in DOMAIN f : f[p] \in OutcomesOf("fx", p) } }

(* -------------------------------- Init --------------------------------- *)

\* MarketApp(page, interval) constructed, nothing started; ths are the threads
\* the run can come to create.
InitApp(m, q, ivls, ths) ==
    /\ dm = EmptyStore
    /\ cap = m
    /\ quota = q
    /\ lock = 0
    /\ running = FALSE
    /\ interval \in ivls
    /\ source_text = << >>
    /\ now = 0
    /\ pc = [ i \in Threads |-> IF i \in ths THEN "idle" ELSE "none" ]
    /\ loc = [ i \in Threads |-> CleanLocals ]
    /\ appends = 0
    /\ rows = << >>
    /\ halted = [ i \in Loops |-> -1 ]

\* datetime.now(), n the reading before: the wall clock, which need not have
\* moved and can have been set back since it was last read.
ClockSteps == { -1, 0, 1 }
ClockRead(n, steps) == { n + d : d \in steps }

\* No provider result fixed in advance.
NoFeed == << >>

Init ==
    /\ InitApp(MaxPoints, MaxCyclesCtl, 1 .. MaxInterval, Threads)
    /\ jitters = Jitters
    /\ chain = NoChain
    /\ ticks = ClockSteps
    /\ feed = NoFeed

(* ------------------------------ controls ------------------------------- *)

\* MarketApp.start: a no-op while running, else a new thread enters _loop.
Start ==
    /\ ~running
    /\ Idle(Loops) # { }
    /\ running' = TRUE
    /\ pc' = [ pc EXCEPT ![FirstIdle(Loops)] = "l_top" ]
    /\ halted' = [ halted EXCEPT ![FirstIdle(Loops)] = -1 ]
    /\ UNCHANGED << dm, cap, quota, lock, interval, source_text, now, loc,
                    appends, rows, chain, jitters, ticks, feed >>

\* MarketApp.stop
Stop ==
    /\ running' = FALSE
    /\ halted' = [ i \in Loops |->
                     IF pc[i] \in SleepPhase /\ halted[i] = -1 THEN 0
                     ELSE halted[i] ]
    /\ UNCHANGED << dm, cap, quota, lock, interval, source_text, now, pc, loc,
                    appends, rows, chain, jitters, ticks, feed >>

\* int(e.control.value) for each value the dropdown can hand over, and for each
\* value of a direct call.
IntervalInts == { PyInt(s) : s \in IntervalInputs }
IntervalCallInts == { PyInt(s) : s \in IntervalTexts }

\* self.interval = int(e.control.value) inside try / except Exception, r what
\* int() did: a value that int() rejects leaves the interval as it was.
IntervalAfter(r, ivl) == IF r.ok THEN r.val ELSE ivl

\* MarketApp.on_interval_change, called by the dropdown with one of its options.
OnIntervalChange ==
    /\ \E r \in IntervalInts : interval' = IntervalAfter(r, interval)
    /\ UNCHANGED << dm, cap, quota, lock, running, source_text, now, pc, loc,
                    appends, rows, halted, chain, jitters, ticks, feed >>

\* MarketApp.on_interval_change, called directly with an event of the caller's
\* making.
OnIntervalChangeCall ==
    /\ \E r \in IntervalCallInts : interval' = IntervalAfter(r, interval)
    /\ UNCHANGED << dm, cap, quota, lock, running, source_text, now, pc, loc,
                    appends, rows, halted, chain, jitters, ticks, feed >>

\* MarketApp.on_manual_refresh: a new thread enters _single_fetch.
OnManualRefresh ==
    /\ Idle(Manuals) # { }
    /\ pc' = [ pc EXCEPT ![FirstIdle(Manuals)] = "m_now" ]
    /\ UNCHANGED << dm, cap, quota, lock, running, interval, source_text, now, loc, appends, rows, halted, chain, jitters, ticks, feed >>

(* ------------------------- steps of the threads ------------------------ *)

\* while self.running:  (top of _loop; the thread ends when it reads False)
LoopTop(i) ==
    /\ pc[i] = "l_top"
    /\ pc' = [ pc EXCEPT ![i] = IF running THEN "l_now" ELSE "idle" ]
    /\ halted' = [ halted EXCEPT ![i] = IF running THEN @ ELSE -1 ]
    /\ UNCHANGED << dm, cap, quota, lock, running, interval, source_text, now, loc, appends, rows, chain, jitters, ticks, feed >>

\* The locals of a cycle that has read the clock as r and is about to make
\* its first attempt.
StampedAtZero(r) == [ CleanLocals EXCEPT !.t = 0, !.attempt = 1 ]
StampedAt(r) == [ CleanLocals EXCEPT !.t = r, !.attempt = 1 ]

\* t = datetime.now(), then the first attempt's provider calls begin.
CycleStart(i) ==
    /\ pc[i] \in { "l_now", "m_now" }
    /\ quota > 0
    /\ quota' = quota - 1
    /\ now' \in ClockRead(now, ticks)
    /\ loc' = [ loc EXCEPT ![i] = StampedAt(now') ]
    /\ pc' = [ pc EXCEPT ![i] = IF i \in Loops THEN "l_fetch" ELSE "m_fetch" ]
    /\ halted' = [ j \in Loops |-> IF j = i THEN -1 ELSE halted[j] ]
    /\ UNCHANGED << dm, cap, lock, running, interval, source_text, appends,
                    rows, chain, jitters, ticks, feed >>

\* What fetch_index_price("^NDX") can return to a cycle: any result, or the
\* one the run has fixed for the cycle, which every attempt of the cycle gets.
NdxResults(fd) == IF fd = << >> THEN IndexResults ELSE { Head(fd) }
FeedAfter(fd) == IF fd = << >> THEN fd ELSE Tail(fd)

\* One attempt of _loop: the three provider calls return, source_text is set,
\* and the attempt either ends the retry loop or goes to its backoff sleep.
LoopFetch(i) ==
    /\ pc[i] = "l_fetch"
    /\ \E n \in NdxResults(feed), g \in IndexResults, fx \in FxResults :
        LET l == [ loc[i] EXCEPT !.ndx = n, !.gspc = g, !.buy = fx[1], !.sell = fx[2] ]
        IN  /\ source_text' = SourceText(n, fx[1])
            /\ IF ~AllNone(n, g, fx[1])
               THEN /\ loc' = [ loc EXCEPT ![i] =
                                  [ WithOwnArgs(l) EXCEPT !.kind = "fresh", !.waited = NoWait ] ]
                    /\ pc' = [ pc EXCEPT ![i] = ArgFrom(l, 1) ]
                    /\ feed' = FeedAfter(feed)
               ELSE IF RetryAfter(l.attempt)
               THEN /\ \E j \in jitters :
                         loc' = [ loc EXCEPT ![i] =
                                    [ l EXCEPT !.backoff = Backoff(l.attempt, j) ] ]
                    /\ pc' = [ pc EXCEPT ![i] = "l_backoff" ]
                    /\ feed' = feed
               ELSE /\ loc' = [ loc EXCEPT ![i] = l ]
                    /\ pc' = [ pc EXCEPT ![i] = "l_hist" ]
                    /\ feed' = FeedAfter(feed)
    /\ UNCHANGED << dm, cap, quota, lock, running, interval, now, appends,
                    rows, halted, chain, jitters, ticks >>

\* time.sleep(backoff) returns; the for loop moves to the next attempt.
LoopBackoff(i) ==
    /\ pc[i] = "l_backoff"
    /\ loc' = [ loc EXCEPT ![i].attempt = @ + 1, ![i].backoff = NoWait,
                         ![i].waited = WaitSum(@, loc[i].backoff) ]
    /\ pc' = [ pc EXCEPT ![i] = "l_fetch" ]
    /\ UNCHANGED << dm, cap, quota, lock, running, interval, source_text, now,
                    appends, rows, halted, chain, jitters, ticks, feed >>

\* All attempts failed: `if self.dm.timestamps:` read without the lock.
LoopHist(i) ==
    /\ pc[i] = "l_hist"
    /\ IF HasHistory(dm)
       THEN /\ loc' = [ loc EXCEPT ![i].kind = "carried", ![i].waited = NoWait ]
            /\ pc' = [ pc EXCEPT ![i] = "latest" ]
       ELSE /\ loc' = [ loc EXCEPT ![i].kind = "none", ![i].waited = NoWait ]
            /\ pc' = [ pc EXCEPT ![i] = "l_none" ]
    /\ UNCHANGED << dm, cap, quota, lock, running, interval, source_text, now,
                    appends, rows, halted, chain, jitters, ticks, feed >>

\* `continue` in the body of `while self.running`: the pc of the loop's test.
AfterNoHistoryReturn == "idle"
AfterNoHistory == "l_top"

\* No history: status is set, time.sleep(1) returns, `continue`.
LoopNone(i) ==
    /\ pc[i] = "l_none"
    /\ loc' = [ loc EXCEPT ![i] = CleanLocals ]
    /\ pc' = [ pc EXCEPT ![i] = AfterNoHistory ]
    /\ UNCHANGED << dm, cap, quota, lock, running, interval, source_text, now,
                    appends, rows, halted, chain, jitters, ticks, feed >>

\* The attempt of _single_fetch: the three provider calls return.
ManualFetch(i) ==
    /\ pc[i] = "m_fetch"
    /\ \E n \in NdxResults(feed), g \in IndexResults, fx \in FxResults :
        LET l == [ loc[i] EXCEPT !.ndx = n, !.gspc = g, !.buy = fx[1], !.sell = fx[2] ]
        IN  IF ManualGivesUp(n, g, fx[1])
            THEN /\ loc' = [ loc EXCEPT ![i] = [ l EXCEPT !.kind = "none" ] ]
                 /\ pc' = [ pc EXCEPT ![i] = "m_none" ]
            ELSE /\ loc' = [ loc EXCEPT ![i] = [ WithOwnArgs(l) EXCEPT !.kind = "fresh" ] ]
                 /\ pc' = [ pc EXCEPT ![i] = ArgFrom(l, 1) ]
    /\ feed' = FeedAfter(feed)
    /\ UNCHANGED << dm, cap, quota, lock, running, interval, source_text, now,
                    appends, rows, halted, chain, jitters, ticks >>

\* The failure status is shown and _single_fetch returns.
ManualNone(i) ==
    /\ pc[i] = "m_none"
    /\ loc' = [ loc EXCEPT ![i] = CleanLocals ]
    /\ pc' = [ pc EXCEPT ![i] = "idle" ]
    /\ UNCHANGED << dm, cap, quota, lock, running, interval, source_text, now,
                    appends, rows, halted, chain, jitters, ticks, feed >>

\* The store reads of the arguments of self.dm.append(t, ...), fresh path.
ArgNdx(i) ==
    /\ pc[i] = "arg_ndx"
    /\ loc' = [ loc EXCEPT ![i].a_ndx = FieldArg(loc[i].ndx, dm.ndx) ]
    /\ pc' = [ pc EXCEPT ![i] = ArgFrom(loc[i], 2) ]
    /\ UNCHANGED << dm, cap, quota, lock, running, interval, source_text, now,
                    appends, rows, halted, chain, jitters, ticks, feed >>

ArgGspc(i) ==
    /\ pc[i] = "arg_gspc"
    /\ loc' = [ loc EXCEPT ![i].a_gspc = FieldArg(loc[i].gspc, dm.gspc) ]
    /\ pc' = [ pc EXCEPT ![i] = ArgFrom(loc[i], 3) ]
    /\ UNCHANGED << dm, cap, quota, lock, running, interval, source_text, now,
                    appends, rows, halted, chain, jitters, ticks, feed >>

ArgBuy(i) ==
    /\ pc[i] = "arg_buy"
    /\ loc' = [ loc EXCEPT ![i].a_buy = FieldArg(loc[i].buy, dm.usd_buy) ]
    /\ pc' = [ pc EXCEPT ![i] = ArgFrom(loc[i], 4) ]
    /\ UNCHANGED << dm, cap, quota, lock, running, interval, source_text, now,
                    appends, rows, halted, chain, jitters, ticks, feed >>

ArgSell(i) ==
    /\ pc[i] = "arg_sell"
    /\ loc' = [ loc EXCEPT ![i].a_sell = FieldArg(loc[i].sell, dm.usd_sell) ]
    /\ pc' = [ pc EXCEPT ![i] = "append" ]
    /\ UNCHANGED << dm, cap, quota, lock, running, interval, source_text, now,
                    appends, rows, halted, chain, jitters, ticks, feed >>

\* The Sample a thread is handing to DataManager.append.
ArgSample(l) ==
    [ time |-> Some(l.t), ndx |-> l.a_ndx, gspc |-> l.a_gspc,
      buy |-> l.a_buy, sell |-> l.a_sell ]

\* DataManager.append: `with self.lock` is entered and
\* self.timestamps.append(t) runs.
ApTs(i) ==
    /\ pc[i] = "append"
    /\ CanAcquire(lock)
    /\ lock' = i
    /\ rows' = DequeAppend(rows, ArgSample(loc[i]), cap)
    /\ dm' = [ dm EXCEPT !.timestamps = DequeAppend(@, loc[i].t, cap) ]
    /\ pc' = [ pc EXCEPT ![i] = "ap_ndx" ]
    /\ UNCHANGED << cap, quota, running, interval, source_text, now, loc,
                    appends, halted, chain, jitters, ticks, feed >>

\* self.ndx.append(ndx)
ApNdx(i) ==
    /\ pc[i] = "ap_ndx"
    /\ dm' = [ dm EXCEPT !.ndx = DequeAppend(@, loc[i].a_ndx, cap) ]
    /\ pc' = [ pc EXCEPT ![i] = "ap_gspc" ]
    /\ UNCHANGED << cap, quota, lock, running, interval, source_text, now, loc,
                    appends, rows, halted, chain, jitters, ticks, feed >>

\* self.gspc.append(gspc)
ApGspc(i) ==
    /\ pc[i] = "ap_gspc"
    /\ dm' = [ dm EXCEPT !.gspc = DequeAppend(@, loc[i].a_gspc, cap) ]
    /\ pc' = [ pc EXCEPT ![i] = "ap_buy" ]
    /\ UNCHANGED << cap, quota, lock, running, interval, source_text, now, loc,
                    appends, rows, halted, chain, jitters, ticks, feed >>

\* self.usd_buy.append(buy)
ApBuy(i) ==
    /\ pc[i] = "ap_buy"
    /\ dm' = [ dm EXCEPT !.usd_buy = DequeAppend(@, loc[i].a_buy, cap) ]
    /\ pc' = [ pc EXCEPT ![i] = "ap_sell" ]
    /\ UNCHANGED << cap, quota, lock, running, interval, source_text, now, loc,
                    appends, rows, halted, chain, jitters, ticks, feed >>

\* self.usd_sell.append(sell), and the lock is released as the call returns.
\* The fresh path goes on to latest(), the carried path to snapshot().
ApSell(i) ==
    /\ pc[i] = "ap_sell"
    /\ dm' = [ dm EXCEPT !.usd_sell = DequeAppend(@, loc[i].a_sell, cap) ]
    /\ lock' = 0
    /\ appends' = appends + 1
    /\ pc' = [ pc EXCEPT ![i] = IF loc[i].kind = "carried" THEN "snapshot"
                                 ELSE "latest" ]
    /\ UNCHANGED << cap, quota, running, interval, source_text, now, loc,
                    rows, halted, chain, jitters, ticks, feed >>

\* DataManager.latest: the lock is taken, the result built, the lock released.
\* On the carried path (before the append) the result becomes ndx, gspc, buy,
\* sell and the arguments of the append; on the fresh path (after it) it feeds
\* the display.
Latest(i) ==
    /\ pc[i] = "latest"
    /\ CanAcquire(lock)
    /\ LET r == LatestOf(dm)
       IN  IF loc[i].kind = "carried"
           THEN /\ loc' = [ loc EXCEPT ![i] =
                              [ @ EXCEPT !.latest = r,
                                         !.ndx = r.ndx, !.gspc = r.gspc,
                                         !.buy = r.buy, !.sell = r.sell,
                                         !.a_ndx = r.ndx, !.a_gspc = r.gspc,
                                         !.a_buy = r.buy, !.a_sell = r.sell ] ]
                /\ pc' = [ pc EXCEPT ![i] = "append" ]
           ELSE /\ loc' = [ loc EXCEPT ![i].latest = r ]
                /\ pc' = [ pc EXCEPT ![i] = "snapshot" ]
    /\ UNCHANGED << dm, cap, quota, lock, running, interval, source_text, now,
                    appends, rows, halted, chain, jitters, ticks, feed >>

\* DataManager.snapshot: the lock is taken, the five deques copied, the lock
\* released.
Snapshot(i) ==
    /\ pc[i] = "snapshot"
    /\ CanAcquire(lock)
    /\ loc' = [ loc EXCEPT ![i].snap = SnapshotOf(dm) ]
    /\ pc' = [ pc EXCEPT ![i] = "render" ]
    /\ UNCHANGED << dm, cap, quota, lock, running, interval, source_text, now,
                    appends, rows, halted, chain, jitters, ticks, feed >>

\* The snapshot is plotted and the display updated. _loop goes on to its sleep
\* phase with slept = 0; _single_fetch sets source_text from the values it
\* fetched and returns.
Render(i) ==
    /\ pc[i] = "render"
    /\ IF i \in Loops
       THEN /\ pc' = [ pc EXCEPT ![i] = "sl_run" ]
            /\ UNCHANGED source_text
       ELSE /\ pc' = [ pc EXCEPT ![i] = "idle" ]
            /\ source_text' = SourceText(loc[i].ndx, loc[i].buy)
    /\ loc' = [ loc EXCEPT ![i] = CleanLocals ]
    /\ UNCHANGED << dm, cap, quota, lock, running, interval, now, appends,
                    rows, halted, chain, jitters, ticks, feed >>

\* while self.running and slept < self.interval:  the read of running
SleepRun(i) ==
    /\ pc[i] = "sl_run"
    /\ pc' = [ pc EXCEPT ![i] = IF running THEN "sl_ivl" ELSE "l_top" ]
    /\ loc' = [ loc EXCEPT ![i].slept = IF running THEN @ ELSE 0 ]
    /\ UNCHANGED << dm, cap, quota, lock, running, interval, source_text, now,
                    appends, rows, halted, chain, jitters, ticks, feed >>

\* ... the read of interval and the comparison
SleepIvl(i) ==
    /\ pc[i] = "sl_ivl"
    /\ pc' = [ pc EXCEPT ![i] = IF SleepMore(loc[i].slept, interval) THEN "sleeping"
                                 ELSE "l_top" ]
    /\ loc' = [ loc EXCEPT ![i].slept =
                  IF SleepMore(loc[i].slept, interval) THEN @ ELSE 0 ]
    /\ UNCHANGED << dm, cap, quota, lock, running, interval, source_text, now,
                    appends, rows, halted, chain, jitters, ticks, feed >>

\* time.sleep(1) returns; slept += 1
Sleeping(i) ==
    /\ pc[i] = "sleeping"
    /\ loc' = [ loc EXCEPT ![i].slept = @ + 1 ]
    /\ halted' = [ halted EXCEPT ![i] = IF @ >= 0 THEN Min(@ + 1, 2) ELSE @ ]
    /\ pc' = [ pc EXCEPT ![i] = "sl_run" ]
    /\ UNCHANGED << dm, cap, quota, lock, running, interval, source_text, now,
                    appends, rows, chain, jitters, ticks, feed >>

\* The next block of the chain runs.
ChainConsult ==
    /\ chain.st = "call"
    /\ chain.k <= Len(ProvidersOf(chain))
    /\ LET p == ProvidersOf(chain)[chain.k]
           o == chain.outs[p]
           a == AfterProvider(o)
       IN  chain' = [ chain EXCEPT
                        !.seen = Append(@, p),
                        !.k = IF a = "next" THEN @ + 1 ELSE @,
                        !.st = IF a = "return" THEN "ret"
                               ELSE IF a = "escape" THEN "exc" ELSE @,
                        !.ret = IF a = "return" THEN ChainValue(chain.fn, p, o.v) ELSE @ ]
    /\ UNCHANGED << dm, cap, quota, lock, running, interval, source_text, now, pc,
                    loc, appends, rows, halted, jitters, ticks, feed >>

\* The last block has fallen through: return None / return None, None.
ChainGiveUp ==
    /\ chain.st = "call"
    /\ chain.k > Len(ProvidersOf(chain))
    /\ chain' = [ chain EXCEPT !.st = "ret", !.ret = ChainNone(chain.fn) ]
    /\ UNCHANGED << dm, cap, quota, lock, running, interval, source_text, now, pc,
                    loc, appends, rows, halted, jitters, ticks, feed >>

(* ---------------------------- specification ---------------------------- *)

Next ==
    \/ Start
    \/ Stop
    \/ OnIntervalChange
    \/ OnManualRefresh
    \/ \E i \in Loops :
        \/ LoopTop(i)
        \/ LoopFetch(i)
        \/ LoopBackoff(i)
        \/ LoopHist(i)
        \/ LoopNone(i)
        \/ SleepRun(i)
        \/ SleepIvl(i)
        \/ Sleeping(i)
    \/ \E i \in Manuals :
        \/ ManualFetch(i)
        \/ ManualNone(i)
    \/ \E i \in Threads :
        \/ CycleStart(i)
        \/ ArgNdx(i)
        \/ ArgGspc(i)
        \/ ArgBuy(i)
        \/ ArgSell(i)
        \/ ApTs(i)
        \/ ApNdx(i)
        \/ ApGspc(i)
        \/ ApBuy(i)
        \/ ApSell(i)
        \/ Latest(i)
        \/ Snapshot(i)
        \/ Render(i)

Spec == Init /\ [][Next]_vars

\* The steps of one thread.
LoopStep(i) ==
    \/ LoopTop(i)
    \/ LoopFetch(i)
    \/ LoopBackoff(i)
    \/ LoopHist(i)
    \/ LoopNone(i)
    \/ SleepRun(i)
    \/ SleepIvl(i)
    \/ Sleeping(i)

ManualStep(i) == ManualFetch(i) \/ ManualNone(i)

SharedStep(i) ==
    \/ CycleStart(i)
    \/ ArgNdx(i)
    \/ ArgGspc(i)
    \/ ArgBuy(i)
    \/ ArgSell(i)
    \/ ApTs(i)
    \/ ApNdx(i)
    \/ ApGspc(i)
    \/ ApBuy(i)
    \/ ApSell(i)
    \/ Latest(i)
    \/ Snapshot(i)
    \/ Render(i)

\* Every thread that can take a step takes one in the end: the interpreter
\* switches between runnable threads, provider calls return within their
\* timeout, sleeps end, and a held lock is released.
Fairness ==
    /\ \A i \in Loops : WF_vars(LoopStep(i) \/ SharedStep(i))
    /\ \A i \in Manuals : WF_vars(ManualStep(i) \/ SharedStep(i))

\* The poller under fair scheduling, in two runs. The scheduled loop alone
\* for three fetch cycles, started, stopped and restarted at any moment: a
\* cycle can fail on the empty Store, fail again, and fail after a cycle has
\* filled it. And the loop beside a manual refresh for two fetch cycles in
\* which the Nasdaq call fails every time, the two threads contending for the
\* lock of the Store.
InitLive ==
    \/ /\ InitApp(MaxPoints, MaxCycles, 1 .. MaxInterval, { 1 })
       /\ jitters = Jitters
       /\ chain = NoChain
       /\ ticks = { 1 }
       /\ feed = NoFeed
    \/ /\ InitApp(MaxPoints, MaxCyclesRun, { 1 }, { 1 } \cup Manuals)
       /\ jitters = NoJitter
       /\ chain = NoChain
       /\ ticks = { 1 }
       /\ feed = << None, None >>

SpecLive == InitLive /\ [][Next]_vars /\ Fairness

\* The application with on_interval_change also called directly.
NextCall == Next \/ OnIntervalChangeCall

SpecCall == Init /\ [][NextCall]_vars

\* The application with every control in use, for two fetch cycles: start()
\* and stop() run one loop thread after another, never two at a time, beside
\* a manual refresh.
InitRun ==
    /\ InitApp(MaxPoints, MaxCyclesRun, 1 .. MaxInterval, { 1 } \cup Manuals)
    /\ jitters = NoJitter
    /\ chain = NoChain
    /\ ticks = { 1 }
    /\ feed = NoFeed

SpecRun == InitRun /\ [][Next]_vars

\* The same on a clock that goes forward by one between the readings of a
\* run, or stands still, or goes back by one.
InitClock ==
    /\ InitApp(MaxPoints, MaxCyclesRun, 1 .. MaxInterval, { 1 } \cup Manuals)
    /\ jitters = NoJitter
    /\ chain = NoChain
    /\ ticks \in { { d } : d \in ClockSteps }
    /\ feed = NoFeed

SpecClock == InitClock /\ [][Next]_vars

\* An outage of the index provider: fetch_index_price("^NDX") returns None to
\* the first two cycles that end their fetches and a price to the third.
OutageNdx == << None, None, Some(1) >>

\* The application with every control in use, for three fetch cycles during
\* that outage: one loop thread at a time beside a manual refresh, the clock
\* moving on by one between readings.
InitData ==
    /\ InitApp(MaxPoints, MaxCycles, 1 .. MaxInterval, { 1 } \cup Manuals)
    /\ jitters = NoJitter
    /\ chain = NoChain
    /\ ticks = { 1 }
    /\ feed = OutageNdx

SpecData == InitData /\ [][Next]_vars

\* A single caller appending to a store of the program's capacity:
\* DataManager.append as one call, k-th Sample stamped k.
StoreAppend ==
    /\ appends < cap + MaxOver
    /\ lock = 0
    /\ LET k == appends + 1
           v == IF k % 2 = 0 THEN None ELSE Some(1 + (k % MaxPrice))
       IN  /\ dm' = AppendAll(dm, cap, k, v, Some(1), v, v)
           /\ rows' = DequeAppend(rows, [ time |-> Some(k), ndx |-> v, gspc |-> Some(1),
                                          buy |-> v, sell |-> v ], cap)
    /\ appends' = appends + 1
    /\ UNCHANGED << cap, quota, lock, running, interval, source_text, now, pc,
                    loc, halted, chain, jitters, ticks, feed >>

InitCap ==
    /\ InitApp(MAX_POINTS, 0, { 1 }, Threads)
    /\ jitters = NoJitter
    /\ chain = NoChain
    /\ ticks = { 1 }
    /\ feed = NoFeed

SpecCap == InitCap /\ [][StoreAppend]_vars

\* The index values that four sequential cycles fetch in the worked example of
\* the history (capacity 3): 100, null, 102, 105.
ExampleNdx == << Some(100), None, Some(102), Some(105) >>

\* The store of the example, capacity 3, under the scheduled loop alone: its
\* first cycles fetch the index values of the example, later ones any value;
\* the clock is either one that moves on by one between readings or the wall
\* clock.
InitFifo ==
    /\ InitApp(3, Len(ExampleNdx) + MaxCyclesCtl, { 1 }, Threads)
    /\ jitters = NoJitter
    /\ chain = NoChain
    /\ ticks \in { { 1 }, ClockSteps }
    /\ feed = ExampleNdx

NextFifo ==
    \/ Start
    \/ \E i \in { 1 } :
        \/ LoopTop(i)
        \/ CycleStart(i)
        \/ LoopFetch(i)
        \/ LoopBackoff(i)
        \/ LoopHist(i)
        \/ ArgNdx(i)
        \/ ArgGspc(i)
        \/ ArgBuy(i)
        \/ ArgSell(i)
        \/ ApTs(i)
        \/ ApNdx(i)
        \/ ApGspc(i)
        \/ ApBuy(i)
        \/ ApSell(i)
        \/ Latest(i)
        \/ Snapshot(i)
        \/ Render(i)
        \/ SleepRun(i)
        \/ SleepIvl(i)
        \/ Sleeping(i)

SpecFifo == InitFifo /\ [][NextFifo]_vars

\* One call of fetch_index_price or fetch_boc_usd_cny, for every behaviour of
\* its providers.
InitChain ==
    /\ InitApp(MaxPoints, 0, { 1 }, Threads)
    /\ jitters = NoJitter
    /\ chain \in ChainCalls
    /\ ticks = { 1 }
    /\ feed = NoFeed

NextChain == ChainConsult \/ ChainGiveUp

SpecChain == InitChain /\ [][NextChain]_vars

(* ------------------------------- claims -------------------------------- *)

\* The four field values of a Sample.
FieldsOf(r) == << r.ndx, r.gspc, r.buy, r.sell >>

\* The five series of a snapshot() result have one length.
SameLength(sn) == \A k \in 1 .. 5 : Len(sn[k]) = Len(sn[1])

\* The five series that hold exactly the Samples of a sequence, in order.
Columns(rs) ==
    << [ k \in 1 .. Len(rs) |-> rs[k].time[1] ],
       [ k \in 1 .. Len(rs) |-> rs[k].ndx ],
       [ k \in 1 .. Len(rs) |-> rs[k].gspc ],
       [ k \in 1 .. Len(rs) |-> rs[k].buy ],
       [ k \in 1 .. Len(rs) |-> rs[k].sell ] >>

\* C1 (carry-forward law, as claimed): when a scheduled cycle that ended with
\* every field null is about to append its carried Sample, the field values of
\* that Sample are those of the Sample that is latest in the Store at that moment.
C1_CarryForwardLaw ==
    \A i \in Loops :
        (pc[i] = "append" /\ loc[i].kind = "carried" /\ lock = 0)
            => FieldsOf(ArgSample(loc[i])) = FieldsOf(LatestOf(dm))

\* C2 (per-field carry-forward, as claimed): when a cycle that obtained some
\* field is about to append its fresh Sample, every field it fetched as null is
\* stored with the value that field has in the Sample latest in the Store at that
\* moment (null if the Store is empty), and every other field with its fetched value.
C2_PerFieldCarryForward ==
    \A i \in Threads :
        (pc[i] = "append" /\ loc[i].kind = "fresh" /\ lock = 0)
            => /\ loc[i].a_ndx = FieldArg(loc[i].ndx, dm.ndx)
               /\ loc[i].a_gspc = FieldArg(loc[i].gspc, dm.gspc)
               /\ loc[i].a_buy = FieldArg(loc[i].buy, dm.usd_buy)
               /\ loc[i].a_sell = FieldArg(loc[i].sell, dm.usd_sell)

\* C3 (lock-step invariant): whenever no append is in progress the five series
\* hold exactly the appended Samples, one entry each; every snapshot() result
\* has its five series of one length; every latest() result is the last Sample
\* appended, whole (or no Sample while the Store is empty).
C3_LockStep ==
    /\ [](lock = 0 => SnapshotOf(dm) = Columns(rows))
    /\ [][ \A i \in Threads :
             /\ (pc[i] = "snapshot" /\ pc'[i] # "snapshot")
                  => (SameLength(loc'[i].snap) /\ loc'[i].snap = Columns(rows))
             /\ (pc[i] = "latest" /\ pc'[i] # "latest")
                  => loc'[i].latest = (IF rows = << >> THEN NoLatest
                                       ELSE rows[Len(rows)]) ]_vars

\* C3 witness: a thread waits to take a snapshot while another thread's append
\* has pushed onto some of the series only.
C3_Witness ==
    \E i \in Threads :
        /\ pc[i] = "snapshot"
        /\ lock \notin { 0, i }
        /\ Len(dm.timestamps) # Len(dm.usd_sell)
        /\ Len(dm.timestamps) = cap

\* C4 (capacity bound): after k appends every series of snapshot() has length
\* min(k, N), N the capacity the store was built with.
C4_CapacityBound ==
    lock = 0 => \A k \in 1 .. 5 : Len(SnapshotOf(dm)[k]) = Min(appends, cap)

\* C4 witness: more than N = MAX_POINTS appends have happened and the length is N.
C4_Witness ==
    /\ cap = MAX_POINTS
    /\ appends > cap
    /\ Len(SnapshotOf(dm)[1]) = cap

\* C5 (empty-history failure): a scheduled cycle that finds every field null
\* and the Store empty takes the no-history path, and neither that path nor a
\* manual trigger that found every field null appends anything: the step leaves
\* the Store as it is, and latest() of an empty Store still reports no Sample.
C5_EmptyHistoryFailure ==
    [][ \A i \in Threads :
          /\ (pc[i] = "l_hist" /\ pc'[i] # "l_hist" /\ dm.timestamps = << >>)
               => (pc'[i] = "l_none" /\ dm' = dm)
          /\ (pc[i] = "m_fetch" /\ pc'[i] # "m_fetch"
                /\ AllNone(loc'[i].ndx, loc'[i].gspc, loc'[i].buy))
               => (pc'[i] = "m_none" /\ dm' = dm)
          /\ (pc[i] \in { "l_none", "m_none" } /\ pc'[i] # pc[i])
               => /\ pc'[i] \in { "l_top", "idle" }
                  /\ dm' = dm
                  /\ (dm = EmptyStore => LatestOf(dm') = NoLatest) ]_vars

\* C5 witness: a scheduled cycle has ended with every field null after its
\* third attempt, on an empty Store, and is on the no-history path.
C5_Witness ==
    \E i \in Loops :
        /\ pc[i] = "l_none"
        /\ loc[i].attempt = 3
        /\ AllNone(loc[i].ndx, loc[i].gspc, loc[i].buy)
        /\ dm = EmptyStore
        /\ LatestOf(dm) = NoLatest

\* C6 (at most one scheduled loop, as claimed): at most one thread is inside
\* the body of _loop (past `while self.running`) at a time.
C6_AtMostOneLoop ==
    Cardinality({ i \in Loops : pc[i] \notin { "idle", "l_top" } }) <= 1

\* C7 (lock discipline, as claimed): a thread about to read or write a series
\* of the Store holds the lock, and a thread in a provider call or a backoff
\* sleep does not.
C7_LockDiscipline ==
    \A i \in Threads :
        /\ pc[i] \in { "l_hist", "arg_ndx", "arg_gspc", "arg_buy", "arg_sell",
                       "ap_ndx", "ap_gspc", "ap_buy", "ap_sell" } => lock = i
        /\ pc[i] \in { "l_fetch", "m_fetch", "l_backoff" } => lock # i

\* C8 (manual = scheduled, as claimed): a cycle, manual or scheduled, ends
\* without a Sample only after three failed attempts.
C8_SameFetchCycle ==
    \A i \in Threads : loc[i].kind = "none" => loc[i].attempt = 3

\* C9 (cooperative stop, as claimed): a loop thread that was in its sleep phase
\* when stop() was called starts no further cycle and finishes at most one
\* more 1-second sleep step.
C9_CooperativeStop ==
    \A i \in Loops :
        halted[i] >= 0 => (pc[i] \in SleepPhase \cup { "l_top" } /\ halted[i] <= 1)

\* C10 (dynamic interval): every 1-second sleep step is followed by a new check;
\* the check compares the seconds slept with the interval as it is at that
\* moment, sleeping one more second if slept < interval and leaving the sleep
\* phase for the next cycle otherwise; a change of the interval moves no thread.
C10_DynamicInterval ==
    [][ /\ \A i \in Loops :
             /\ (pc[i] = "sleeping" /\ pc'[i] # "sleeping")
                  => (pc'[i] = "sl_run" /\ loc'[i].slept = loc[i].slept + 1)
             /\ (pc[i] = "sl_ivl" /\ pc'[i] # "sl_ivl")
                  => pc'[i] = (IF loc[i].slept < interval THEN "sleeping" ELSE "l_top")
        /\ interval' # interval => (pc' = pc /\ loc' = loc /\ dm' = dm) ]_vars

\* C10 witness: the interval was shortened below the seconds already slept
\* while a loop thread is at its check.
C10_Witness ==
    \E i \in Loops :
        /\ pc[i] = "sl_ivl"
        /\ loc[i].slept >= 1
        /\ loc[i].slept > interval

\* C11 (interval validation, as claimed): the interval is a positive integer
\* in every reachable state, a non-positive value given to on_interval_change
\* being rejected.
C11_IntervalPositive == interval >= 1

\* C12 (retry policy): a scheduled cycle makes at most 3 attempts, numbered
\* 1, 2, 3, a new attempt starting only at the start of the cycle or after a
\* backoff; an attempt with some field non-null ends the attempts (the cycle
\* goes on to its fresh Sample with no backoff); a backoff follows only an
\* attempt with every field null that is not the third, so a cycle sleeps at
\* most 2 backoffs, and the third failed attempt goes on with no backoff.
C12_RetryPolicy ==
    /\ [](\A i \in Loops :
            /\ pc[i] \in { "l_fetch", "l_backoff", "l_hist" } => loc[i].attempt \in 1 .. 3
            /\ pc[i] = "l_backoff"
                 => /\ loc[i].attempt \in 1 .. 2
                    /\ AllNone(loc[i].ndx, loc[i].gspc, loc[i].buy)
            /\ pc[i] = "l_hist"
                 => /\ loc[i].attempt = 3
                    /\ AllNone(loc[i].ndx, loc[i].gspc, loc[i].buy))
    /\ [][ \A i \in Loops :
             /\ (pc'[i] = "l_fetch" /\ pc[i] # "l_fetch")
                  => \/ pc[i] = "l_now" /\ loc'[i].attempt = 1
                     \/ pc[i] = "l_backoff" /\ loc'[i].attempt = loc[i].attempt + 1
             /\ (pc[i] = "l_fetch" /\ pc'[i] # "l_fetch"
                   /\ ~AllNone(loc'[i].ndx, loc'[i].gspc, loc'[i].buy))
                  => /\ pc'[i] \in { "arg_ndx", "arg_gspc", "arg_buy", "arg_sell", "append" }
                     /\ loc'[i].kind = "fresh"
                     /\ loc'[i].backoff = NoWait
             /\ (pc[i] = "l_fetch" /\ pc'[i] # "l_fetch"
                   /\ AllNone(loc'[i].ndx, loc'[i].gspc, loc'[i].buy))
                  => pc'[i] = (IF loc[i].attempt < 3 THEN "l_backoff" ELSE "l_hist") ]_vars

\* C12 witness: a scheduled cycle has made its third attempt after two
\* backoffs, every field null each time, and sleeps no third backoff.
C12_Witness ==
    \E i \in Loops :
        /\ pc[i] = "l_hist"
        /\ loc[i].attempt = 3
        /\ loc[i].backoff = NoWait
        /\ AllNone(loc[i].ndx, loc[i].gspc, loc[i].buy)

\* C13 (loop after a `none` outcome, as claimed): a scheduled cycle that ended
\* with every field null and the Store empty goes on, when it has shown its
\* status, to the cooperative sleep phase, as the fresh and carried outcomes do.
C13_SleepAfterNone ==
    [][ \A i \in Loops :
          (pc[i] = "l_none" /\ pc'[i] # "l_none") => pc'[i] \in SleepPhase ]_vars

\* C14 (failure never stops the poller): whatever the providers return, a loop
\* thread ends only at the test of `while self.running`, and only when it reads
\* running false; and, every thread being scheduled fairly, a loop thread that
\* has started a cycle comes to the point of starting the next cycle, or has
\* ended because stop() was called.
C14_FailureNeverStops ==
    /\ [][ \A i \in Loops :
             (pc[i] # "idle" /\ pc'[i] = "idle") => (pc[i] = "l_top" /\ ~running) ]_vars
    /\ \A i \in Loops :
         (pc[i] = "l_fetch") ~> (pc[i] = "l_now" \/ (pc[i] = "idle" /\ ~running))

\* C14 witness: every provider has failed in all three attempts of a cycle
\* while the Store had history, the loop has appended the carried Sample, and
\* the loop thread, running still true, is at the point of starting another
\* cycle.
C14_Witness ==
    \E i \in Loops :
        /\ pc[i] = "l_now"
        /\ running
        /\ appends = 2
        /\ source_text = << "unknown" >>
        /\ dm.gspc = << None, None >>
        /\ dm.ndx[1] # None
        /\ rows[2].ndx = rows[1].ndx

\* C15 (provider chain resolution): the providers a chain call has consulted
\* are an initial part of the chain's fixed order; a provider is consulted only
\* when every provider before it raised or yielded nothing; a call that
\* returns a value returns the value of the provider consulted last, which is
\* the first with a usable value (for the FX chain both rates are set); a call
\* returns null only when all providers were consulted and none had a usable
\* value; no exception leaves the call.
C15_ChainResolution ==
    LET provs == ProvidersOf(chain)
        n == Len(chain.seen)
        Usable(p) == chain.outs[p].tag = "value"
    IN  chain.st # "idle" =>
            /\ chain.st # "exc"
            /\ n <= Len(provs)
            /\ chain.seen = SubSeq(provs, 1, n)
            /\ \A j \in 1 .. n - 1 : ~Usable(chain.seen[j])
            /\ chain.st = "call" => \A j \in 1 .. n : ~Usable(chain.seen[j])
            /\ (chain.st = "ret" /\ chain.ret # ChainNone(chain.fn))
                 => /\ n >= 1
                    /\ Usable(chain.seen[n])
                    /\ chain.ret = ChainValue(chain.fn, chain.seen[n], chain.outs[chain.seen[n]].v)
                    /\ chain.fn = "fx" => (chain.ret[1] # None /\ chain.ret[2] # None)
            /\ (chain.st = "ret" /\ chain.ret = ChainNone(chain.fn))
                 => /\ n = Len(provs)
                    /\ \A j \in 1 .. n : ~Usable(chain.seen[j])

\* C15 witness: the first provider of the index chain raised, the second
\* yielded nothing, the third yielded the value returned, and the fourth, which
\* would have yielded another value, was not consulted.
C15_Witness ==
    /\ chain.st = "ret"
    /\ chain.fn = "index"
    /\ chain.seen = << "yahoo-html", "stooq", "yfinance" >>
    /\ chain.outs["yahoo-html"] = Raises
    /\ chain.outs["stooq"] = Nothing
    /\ chain.ret = Some(1)
    /\ chain.outs["yahoo-api"] = Yields(<< 2 >>)

\* The index series of the example with the null filled by carry-forward.
ExampleSeries == << Some(100), Some(100), Some(102), Some(105) >>

\* One append to a series of capacity m took old to new: the old entries
\* keep their order, the oldest is gone if the series was full, and one
\* entry has been added at the end.
Pushed(old, new, m) ==
    IF Len(old) < m
    THEN Len(new) = Len(old) + 1 /\ SubSeq(new, 1, Len(old)) = old
    ELSE Len(new) = m /\ SubSeq(new, 1, m - 1) = SubSeq(old, 2, m)

\* C16 (FIFO history): after k appends by sequential cycles snapshot() holds
\* min(k, N) entries per series; every append adds its entry at the end of a
\* series and evicts the oldest entry first when the series is full, the
\* other entries keeping their order; when the clock moves on by one between
\* cycles the timestamps are k - min(k, N) + 1 .. k, oldest first; and the
\* index values fetched as 100, null, 102, 105 are stored as 100, 100, 102,
\* 105, so with N = 3 the index series is [100, 100, 102] after three cycles
\* and [100, 102, 105] after the fourth.
C16_FifoHistory ==
    /\ [](lock = 0 =>
            LET k == appends
                m == Min(k, cap)
                sn == SnapshotOf(dm)
            IN  /\ \A c \in 1 .. 5 : Len(sn[c]) = m
                /\ ticks = { 1 } => \A j \in 1 .. m : sn[1][j] = k - m + j
                /\ \A j \in 1 .. m :
                     k - m + j <= Len(ExampleSeries)
                         => sn[2][j] = ExampleSeries[k - m + j]
                /\ (cap = 3 /\ k = 3) => sn[2] = << Some(100), Some(100), Some(102) >>
                /\ (cap = 3 /\ k = 4) => sn[2] = << Some(100), Some(102), Some(105) >>)
    /\ [][ \A c \in 1 .. 5 :
             SnapshotOf(dm')[c] # SnapshotOf(dm)[c]
                 => Pushed(SnapshotOf(dm)[c], SnapshotOf(dm')[c], cap) ]_vars

\* C16 witness: the fourth cycle of the example has evicted the first Sample
\* of a store of capacity 3, the second cycle having fetched the S&P value
\* while the index value was null.
C16_Witness ==
    /\ lock = 0
    /\ cap = 3
    /\ appends = 4
    /\ dm.timestamps = << 2, 3, 4 >>
    /\ dm.ndx = << Some(100), Some(102), Some(105) >>
    /\ dm.gspc[1] # None

\* C17 (backoff bounds, as claimed): the backoff slept after failed attempt k
\* (k = 1, 2) lasts at least k * 1.0 s and less than k * 1.0 s + 0.5 s; when
\* all three attempts of a cycle have failed the cycle has slept, in its
\* backoffs together, at least 3.0 s and less than 4.0 s.
C17_BackoffBounds ==
    \A i \in Loops :
        /\ pc[i] = "l_backoff"
             => /\ loc[i].attempt \in 1 .. 2
                /\ WaitAtLeast(loc[i].backoff, loc[i].attempt * 1000)
                /\ WaitBelow(loc[i].backoff, loc[i].attempt * 1000 + 500)
        /\ pc[i] = "l_hist"
             => /\ WaitAtLeast(loc[i].waited, 3000)
                /\ WaitBelow(loc[i].waited, 4000)

\* The sources that name exactly the field types with data: the index type if
\* ndx or gspc is present, the FX type if the FX pair is, 'unknown' if neither.
ProvenanceOf(ndx, gspc, buy) ==
    LET srcs == (IF ndx # None \/ gspc # None THEN << "index-html" >> ELSE << >>)
                \o (IF buy # None THEN << "fx-html" >> ELSE << >>)
    IN  IF srcs # << >> THEN srcs ELSE << "unknown" >>

\* C18 (provenance, as claimed): the source_text recorded after an attempt of
\* the scheduled loop, and at the end of a manual refresh, names exactly the
\* field types that returned data in that attempt.
C18_Provenance ==
    [][ /\ \A i \in Loops :
             (pc[i] = "l_fetch" /\ pc'[i] # "l_fetch")
                => source_text' = ProvenanceOf(loc'[i].ndx, loc'[i].gspc, loc'[i].buy)
        /\ \A i \in Manuals :
             (pc[i] = "render" /\ pc'[i] # "render")
                => source_text' = ProvenanceOf(loc[i].ndx, loc[i].gspc, loc[i].buy) ]_vars

\* A series never goes from a value back to null.
NoRegression(q) ==
    \A j \in 1 .. Len(q) : \A k \in j .. Len(q) : q[j] # None => q[k] # None

\* C19 (no regression to null, as claimed): in every snapshot(), for each of
\* the four value series, once an entry is non-null every later entry is.
C19_NoRegressionToNull ==
    lock = 0 =>
        /\ NoRegression(SnapshotOf(dm)[2])
        /\ NoRegression(SnapshotOf(dm)[3])
        /\ NoRegression(SnapshotOf(dm)[4])
        /\ NoRegression(SnapshotOf(dm)[5])

\* C20 (no empty Sample): every Sample held in the Store, and every Sample a
\* cycle (fresh, carried or manual) is handing to append, has a non-null value
\* among ndx, gspc and buy.
C20_NoEmptySample ==
    /\ lock = 0 =>
         \A j \in 1 .. Len(dm.timestamps) :
             dm.ndx[j] # None \/ dm.gspc[j] # None \/ dm.usd_buy[j] # None
    /\ \A j \in 1 .. Len(rows) :
         rows[j].ndx # None \/ rows[j].gspc # None \/ rows[j].buy # None
    /\ \A i \in Threads :
         pc[i] \in { "append", "ap_ndx", "ap_gspc", "ap_buy", "ap_sell" }
            => (loc[i].a_ndx # None \/ loc[i].a_gspc # None \/ loc[i].a_buy # None)

\* C20 witness: a carried Sample, appended after a cycle whose attempts all
\* found every field null, is in the Store behind the Sample it repeats, and
\* one of its fields is null.
C20_Witness ==
    /\ lock = 0
    /\ Len(rows) >= 2
    /\ \E i \in Loops : pc[i] = "snapshot" /\ loc[i].kind = "carried"
    /\ FieldsOf(rows[Len(rows)]) = FieldsOf(rows[Len(rows) - 1])
    /\ rows[Len(rows)].gspc = None

\* The pcs of a cycle between its reading of the clock and its display.
CyclePcs ==
    { "l_fetch", "l_backoff", "l_hist", "m_fetch", "arg_ndx", "arg_gspc", "arg_buy",
      "arg_sell", "latest", "append", "ap_ndx", "ap_gspc", "ap_buy", "ap_sell",
      "snapshot" }

\* C21 (timestamp order, as claimed): for any interleaving of the scheduled
\* loop and manual triggers the timestamp series of snapshot() is in
\* non-decreasing order.
C21_TimestampOrder ==
    lock = 0 =>
        \A j \in 1 .. Len(SnapshotOf(dm)[1]) - 1 :
            SnapshotOf(dm)[1][j] <= SnapshotOf(dm)[1][j + 1]

\* C21 (as amended): a cycle reads the clock once, at its start, before any
\* provider call or backoff, and no other step reads it; the cycle keeps the
\* reading unchanged and appends it as its Sample's timestamp. The series of
\* snapshot() holds the timestamps in the order the appends were made.
C21_StampAtCycleStart ==
    /\ [](lock = 0 => SnapshotOf(dm)[1] = Columns(rows)[1])
    /\ [][ /\ now' # now
               => \E i \in Threads : pc[i] \in { "l_now", "m_now" } /\ pc'[i] # pc[i]
           /\ \A i \in Threads :
                /\ (pc[i] \in { "l_now", "m_now" } /\ pc'[i] # pc[i])
                     => /\ pc'[i] \in { "l_fetch", "m_fetch" }
                        /\ loc'[i].t = now'
                        /\ loc'[i].attempt = 1
                /\ (pc'[i] \in { "l_fetch", "m_fetch" }
                        /\ pc[i] \notin { "l_fetch", "m_fetch" })
                     => pc[i] \in { "l_now", "m_now", "l_backoff" }
                /\ (pc[i] \in CyclePcs /\ pc'[i] \in CyclePcs) => loc'[i].t = loc[i].t
                /\ (pc[i] = "append" /\ pc'[i] # "append")
                     => dm'.timestamps[Len(dm'.timestamps)] = loc[i].t ]_vars

\* C21 witness: on a clock that went forward between its two readings, two
\* cycles overlapped, the one that read the clock later appended first, and
\* the timestamp series is out of order.
C21_Witness ==
    /\ lock = 0
    /\ ticks = { 1 }
    /\ Len(dm.timestamps) >= 2
    /\ dm.timestamps[Len(dm.timestamps)] < dm.timestamps[Len(dm.timestamps) - 1]
    /\ rows[Len(rows)].time = Some(dm.timestamps[Len(dm.timestamps)])

====
